---- MODULE Spec2Model ----
(***************************************************************************)
(* Model of cpp_tutorial_102e5f.cpp: main launches calculate_square_async  *)
(* with std::async(std::launch::async, ...), does other work, and then     *)
(* retrieves the result with future_result.get().                          *)
(*                                                                         *)
(* Two execution contexts run concurrently: the caller (main) and the      *)
(* worker (calculate_square_async).  Every statement of either function is *)
(* one step, so that every interleaving of the statements is explored.     *)
(* sleep_for guarantees only a lower bound on the time slept and neither   *)
(* thread has an upper bound on how long it may be descheduled, so the     *)
(* real-time delays exclude no interleaving: a sleeping context is modelled*)
(* as suspended until a wake step that may happen at any later moment.     *)
(* Failure to create the worker thread (std::system_error thrown by        *)
(* std::async itself) is not modelled.                                     *)
(***************************************************************************)
EXTENDS Integers, Sequences, FiniteSets, TLC

VARIABLES
    number,         \* the int argument handed to calculate_square_async
    fault,          \* worker statement at which a fault is injected, or "none"
    main_pc,        \* position of main
    worker_pc,      \* position of calculate_square_async
    future_valid,   \* future_result.valid()
    shared_state,   \* the shared state behind future_result
    worker_result,  \* local `result` of calculate_square_async, <<>> until set
    result,         \* local `result` of main, <<>> until set
    caught,         \* what() of the exception caught in main, <<>> if none
    console,        \* the lines written to std::cout / std::cerr, in order
    slot_log,       \* accesses to the result slot of the shared state, in order
    exit_code       \* <<>> while main runs, <<c>> once main has returned c

vars == <<number, fault, main_pc, worker_pc, future_valid, shared_state,
          worker_result, result, caught, console, slot_log, exit_code>>

----------------------------------------------------------------------------
(* Bounds of the model. *)

MaxSmallInput == 5

MaxBoundaryOffset == 1

----------------------------------------------------------------------------
(* The C++ type int: 32 bits, two's complement. *)

IntMax == 2147483647

IntMin == -IntMax - 1

\* Largest k with k * k <= IntMax (46340).
SqrtIntMax == CHOOSE k \in 46000..47000 : k * k <= IntMax /\ (IntMax - k * k) < 2 * k + 1

Abs(n) == IF n < 0 THEN -n ELSE n

\* number * number does not fit an int.
Overflows(n) == Abs(n) > SqrtIntMax

\* (x * y) mod 2^16 for 0 <= x, y < 2^16, computed without leaving 32 bits.
MulMod16(x, y) == ((x % 256) * y + 256 * (((x \div 256) * y) % 256)) % 65536

\* The low 32 bits of n * n read as a two's-complement int: what the imul
\* instruction leaves in the register when the product overflows.
WrapSquare(n) ==
    LET a  == Abs(n)
        ah == a \div 65536
        al == a % 65536
        bh == al \div 256
        bl == al % 256
        low == 2 * bh * bl * 256 + bl * bl
        lo == low % 65536
        hi == (bh * bh + (low \div 65536) + 2 * MulMod16(ah, al)) % 65536
    IN  IF hi >= 32768 THEN (hi - 65536) * 65536 + lo ELSE hi * 65536 + lo

\* The values `number * number` (line 24) may leave in `result`.  A signed
\* overflow is undefined behaviour: any int may result, represented by the
\* wrapped product and the two extreme ints.
Square(n) ==
    IF Overflows(n) THEN {WrapSquare(n), IntMin, IntMax} ELSE {n * n}

----------------------------------------------------------------------------
(* Inputs *)

\* The argument of the call at line 41 is 5; the function accepts any int.
Inputs ==
    (0..MaxSmallInput)
      \cup ((SqrtIntMax - MaxBoundaryOffset)..(SqrtIntMax + MaxBoundaryOffset))
      \cup {IntMax}

\* Worker statements at which a fault can be injected.  The source's worker
\* never throws; the injected failure is a std::exception (it has a what()),
\* the kind the handler at line 59 receives.
FaultPoints == {"none", "w18", "w22", "w25"}

\* The description carried by the injected failure (e.what()).
FaultWhat(f) == "fault at " \o f

----------------------------------------------------------------------------
(* Console *)

\* The texts of lines 30, 45, 47, 55, 58, 61 and 64 (main) and of lines 18
\* and 25 (worker); the values printed with a line travel in its val field.
MsgStarting == "Starting the program."

MsgDoingOtherWork == "Doing other work while the calculation is in progress..."

MsgFinishedOtherWork == "Finished doing other work."

MsgWaiting == "Waiting for the asynchronous calculation to finish and getting the result."

MsgResult == "Asynchronous calculation result: "

MsgException == "An exception occurred during asynchronous execution: "

MsgProgramFinished == "Program finished."

MsgWorkerStarting == "Starting calculation for "

MsgWorkerFinished == "Calculation for ... finished. Result: "

Line(ctx, line, val) == [ctx |-> ctx, line |-> line, val |-> val]

Say(ctx, line, val) == console' = Append(console, Line(ctx, line, val))

----------------------------------------------------------------------------
(* The shared state of the future *)

NoSharedState == [status |-> "absent", payload |-> <<>>]

\* future::get waits until the shared state is ready.
IsReady(ss) == ss.status \in {"value", "exception"}

Init ==
    /\ number \in Inputs
    /\ fault \in FaultPoints
    /\ main_pc = "m30"
    /\ worker_pc = "idle"
    /\ future_valid = FALSE
    /\ shared_state = NoSharedState
    /\ worker_result = <<>>
    /\ result = <<>>
    /\ caught = <<>>
    /\ console = <<>>
    /\ slot_log = <<>>
    /\ exit_code = <<>>

----------------------------------------------------------------------------
(* main *)

\* line 30
MainStart ==
    /\ main_pc = "m30"
    /\ main_pc' = "m41"
    /\ Say("main", MsgStarting, <<>>)
    /\ UNCHANGED <<number, fault, worker_pc, future_valid, shared_state,
                   worker_result, result, caught, slot_log, exit_code>>

\* line 41: std::async(std::launch::async, calculate_square_async, number)
Launch ==
    /\ main_pc = "m41"
    /\ main_pc' = "m45"
    /\ worker_pc' = "w18"
    /\ future_valid' = TRUE
    /\ shared_state' = [status |-> "pending", payload |-> <<>>]
    /\ UNCHANGED <<number, fault, worker_result, result, caught, console,
                   slot_log, exit_code>>

\* MainDoingOtherWork reached only once the worker is done: what discarding
\* the future returned at line 41 would do (its destructor joins the worker).
MainDoingOtherWorkAfterJoin ==
    /\ main_pc = "m45"
    /\ worker_pc \in {"returned", "thrown"}
    /\ main_pc' = "m46"
    /\ Say("main", MsgDoingOtherWork, <<>>)
    /\ UNCHANGED <<number, fault, worker_pc, future_valid, shared_state,
                   worker_result, result, caught, slot_log, exit_code>>

\* line 45
MainDoingOtherWork ==
    /\ main_pc = "m45"
    /\ main_pc' = "m46"
    /\ Say("main", MsgDoingOtherWork, <<>>)
    /\ UNCHANGED <<number, fault, worker_pc, future_valid, shared_state,
                   worker_result, result, caught, slot_log, exit_code>>

\* line 46: sleep_for(1 s) suspends main ...
MainSleep ==
    /\ main_pc = "m46"
    /\ main_pc' = "m46_sleeping"
    /\ UNCHANGED <<number, fault, worker_pc, future_valid, shared_state,
                   worker_result, result, caught, console, slot_log, exit_code>>

\* ... until the sleep ends.
MainWake ==
    /\ main_pc = "m46_sleeping"
    /\ main_pc' = "m47"
    /\ UNCHANGED <<number, fault, worker_pc, future_valid, shared_state,
                   worker_result, result, caught, console, slot_log, exit_code>>

\* MainFinishedOtherWork printing the text of line 55 (a pasted line).
MainFinishedOtherWorkPasted ==
    /\ main_pc = "m47"
    /\ main_pc' = "m55"
    /\ Say("main", MsgWaiting, <<>>)
    /\ UNCHANGED <<number, fault, worker_pc, future_valid, shared_state,
                   worker_result, result, caught, slot_log, exit_code>>

\* line 47
MainFinishedOtherWork ==
    /\ main_pc = "m47"
    /\ main_pc' = "m55"
    /\ Say("main", MsgFinishedOtherWork, <<>>)
    /\ UNCHANGED <<number, fault, worker_pc, future_valid, shared_state,
                   worker_result, result, caught, slot_log, exit_code>>

\* line 55
MainWaiting ==
    /\ main_pc = "m55"
    /\ main_pc' = "m57"
    /\ Say("main", MsgWaiting, <<>>)
    /\ UNCHANGED <<number, fault, worker_pc, future_valid, shared_state,
                   worker_result, result, caught, slot_log, exit_code>>

\* MainGet that swallows the stored exception and yields a value-initialized
\* int instead of rethrowing.
MainGetSwallows ==
    /\ main_pc = "m57"
    /\ future_valid
    /\ IsReady(shared_state)
    /\ future_valid' = FALSE
    /\ slot_log' = Append(slot_log, <<"main", "read">>)
    /\ result' = (IF shared_state.status = "value" THEN shared_state.payload ELSE <<0>>)
    /\ main_pc' = "m58"
    /\ UNCHANGED <<number, fault, worker_pc, shared_state, worker_result,
                   caught, console, exit_code>>

\* MainGet that leaves future_result valid (the behaviour of a
\* std::shared_future, whose get() does not release the shared state).
MainGetKeepsValid ==
    /\ main_pc = "m57"
    /\ future_valid
    /\ IsReady(shared_state)
    /\ slot_log' = Append(slot_log, <<"main", "read">>)
    /\ IF shared_state.status = "value"
         THEN /\ result' = shared_state.payload
              /\ main_pc' = "m58"
              /\ UNCHANGED caught
         ELSE /\ caught' = shared_state.payload
              /\ main_pc' = "m61"
              /\ UNCHANGED result
    /\ UNCHANGED <<number, fault, worker_pc, future_valid, shared_state,
                   worker_result, console, exit_code>>

\* MainGet without the wait: the retrieval returns at once, with a
\* value-initialized int when the shared state holds no value yet.
MainGetNoWait ==
    /\ main_pc = "m57"
    /\ future_valid
    /\ future_valid' = FALSE
    /\ slot_log' = Append(slot_log, <<"main", "read">>)
    /\ IF shared_state.status = "exception"
         THEN /\ caught' = shared_state.payload
              /\ main_pc' = "m61"
              /\ UNCHANGED result
         ELSE /\ result' = (IF shared_state.status = "value"
                              THEN shared_state.payload ELSE <<0>>)
              /\ main_pc' = "m58"
              /\ UNCHANGED caught
    /\ UNCHANGED <<number, fault, worker_pc, shared_state, worker_result,
                   console, exit_code>>

\* line 57: future_result.get() waits for the shared state to be ready, then
\* releases it and either returns the stored value or rethrows the stored
\* exception, which catch (const std::exception&) at line 59 receives.
MainGet ==
    /\ main_pc = "m57"
    /\ future_valid
    /\ IsReady(shared_state)
    /\ future_valid' = FALSE
    /\ slot_log' = Append(slot_log, <<"main", "read">>)
    /\ IF shared_state.status = "value"
         THEN /\ result' = shared_state.payload
              /\ main_pc' = "m58"
              /\ UNCHANGED caught
         ELSE /\ caught' = shared_state.payload
              /\ main_pc' = "m61"
              /\ UNCHANGED result
    /\ UNCHANGED <<number, fault, worker_pc, shared_state, worker_result,
                   console, exit_code>>

\* MainPrintResult that calls future_result.get() a second time to print.
MainPrintResultGetAgain ==
    /\ main_pc = "m58"
    /\ main_pc' = "m64"
    /\ slot_log' = Append(slot_log, <<"main", "read">>)
    /\ Say("main", MsgResult, shared_state.payload)
    /\ UNCHANGED <<number, fault, worker_pc, future_valid, shared_state,
                   worker_result, result, caught, exit_code>>

\* line 58
MainPrintResult ==
    /\ main_pc = "m58"
    /\ main_pc' = "m64"
    /\ Say("main", MsgResult, result)
    /\ UNCHANGED <<number, fault, worker_pc, future_valid, shared_state,
                   worker_result, result, caught, slot_log, exit_code>>

\* MainPrintDiagnostic that rethrows from the handler: the exception leaves
\* main and the process is terminated.
MainRethrow ==
    /\ main_pc = "m61"
    /\ main_pc' = "terminated"
    /\ Say("main", MsgException, caught)
    /\ UNCHANGED <<number, fault, worker_pc, future_valid, shared_state,
                   worker_result, result, caught, slot_log, exit_code>>

\* line 61: the handler prints the diagnostic and falls through
MainPrintDiagnostic ==
    /\ main_pc = "m61"
    /\ main_pc' = "m64"
    /\ Say("main", MsgException, caught)
    /\ UNCHANGED <<number, fault, worker_pc, future_valid, shared_state,
                   worker_result, result, caught, slot_log, exit_code>>

\* line 64
MainProgramFinished ==
    /\ main_pc = "m64"
    /\ main_pc' = "m65"
    /\ Say("main", MsgProgramFinished, <<>>)
    /\ UNCHANGED <<number, fault, worker_pc, future_valid, shared_state,
                   worker_result, result, caught, slot_log, exit_code>>

\* MainReturn that reports a caught failure in the exit code.
MainReturnFailureCode ==
    /\ main_pc = "m65"
    /\ main_pc' = "exited"
    /\ exit_code' = (IF caught = <<>> THEN <<0>> ELSE <<1>>)
    /\ UNCHANGED <<number, fault, worker_pc, future_valid, shared_state,
                   worker_result, result, caught, console, slot_log>>

\* line 65: return 0
MainReturn ==
    /\ main_pc = "m65"
    /\ main_pc' = "exited"
    /\ exit_code' = <<0>>
    /\ UNCHANGED <<number, fault, worker_pc, future_valid, shared_state,
                   worker_result, result, caught, console, slot_log>>

----------------------------------------------------------------------------
(* calculate_square_async *)

\* WorkerStart run only once main is inside get(): what the launch policy
\* std::launch::deferred at line 41 would do.
WorkerStartDeferred ==
    /\ worker_pc = "w18"
    /\ fault # "w18"
    /\ main_pc = "m57"
    /\ worker_pc' = "w22"
    /\ Say("worker", MsgWorkerStarting, <<number>>)
    /\ UNCHANGED <<number, fault, main_pc, future_valid, shared_state,
                   worker_result, result, caught, slot_log, exit_code>>

\* line 18
WorkerStart ==
    /\ worker_pc = "w18"
    /\ fault # "w18"
    /\ worker_pc' = "w22"
    /\ Say("worker", MsgWorkerStarting, <<number>>)
    /\ UNCHANGED <<number, fault, main_pc, future_valid, shared_state,
                   worker_result, result, caught, slot_log, exit_code>>

\* line 22: sleep_for(2 s) suspends the worker ...
WorkerSleep ==
    /\ worker_pc = "w22"
    /\ fault # "w22"
    /\ worker_pc' = "w22_sleeping"
    /\ UNCHANGED <<number, fault, main_pc, future_valid, shared_state,
                   worker_result, result, caught, console, slot_log, exit_code>>

\* WorkerWake that never leaves the sleep.
WorkerOversleeps ==
    /\ worker_pc = "w22_sleeping"
    /\ worker_pc' = "w22_sleeping"
    /\ UNCHANGED <<number, fault, main_pc, future_valid, shared_state,
                   worker_result, result, caught, console, slot_log, exit_code>>

\* ... until the sleep ends.
WorkerWake ==
    /\ worker_pc = "w22_sleeping"
    /\ worker_pc' = "w24"
    /\ UNCHANGED <<number, fault, main_pc, future_valid, shared_state,
                   worker_result, result, caught, console, slot_log, exit_code>>

\* line 24: int result = number * number
WorkerCompute ==
    /\ worker_pc = "w24"
    /\ worker_pc' = "w25"
    /\ \E r \in Square(number) : worker_result' = <<r>>
    /\ UNCHANGED <<number, fault, main_pc, future_valid, shared_state,
                   result, caught, console, slot_log, exit_code>>

\* line 25
WorkerFinished ==
    /\ worker_pc = "w25"
    /\ fault # "w25"
    /\ worker_pc' = "w26"
    /\ Say("worker", MsgWorkerFinished, <<number>> \o worker_result)
    /\ UNCHANGED <<number, fault, main_pc, future_valid, shared_state,
                   worker_result, result, caught, slot_log, exit_code>>

\* WorkerReturn that returns its argument instead of its result.
WorkerReturnsNumber ==
    /\ worker_pc = "w26"
    /\ worker_pc' = "returned"
    /\ shared_state' = [status |-> "value", payload |-> <<number>>]
    /\ slot_log' = Append(slot_log, <<"worker", "write">>)
    /\ UNCHANGED <<number, fault, main_pc, future_valid, worker_result,
                   result, caught, console, exit_code>>

\* WorkerReturn that stores the value without making the shared state ready.
WorkerReturnNotReady ==
    /\ worker_pc = "w26"
    /\ worker_pc' = "returned"
    /\ shared_state' = [status |-> "pending", payload |-> worker_result]
    /\ slot_log' = Append(slot_log, <<"worker", "write">>)
    /\ UNCHANGED <<number, fault, main_pc, future_valid, worker_result,
                   result, caught, console, exit_code>>

\* line 26: return result; std::async stores the value in the shared state
\* and makes it ready.
WorkerReturn ==
    /\ worker_pc = "w26"
    /\ worker_pc' = "returned"
    /\ shared_state' = [status |-> "value", payload |-> worker_result]
    /\ slot_log' = Append(slot_log, <<"worker", "write">>)
    /\ UNCHANGED <<number, fault, main_pc, future_valid, worker_result,
                   result, caught, console, exit_code>>

\* An injected failure of the statement the worker is at: the exception
\* leaves calculate_square_async unhandled (the function has no try block)
\* and std::async stores it in the shared state and makes it ready.
WorkerThrow ==
    /\ worker_pc = fault
    /\ worker_pc' = "thrown"
    /\ shared_state' = [status |-> "exception", payload |-> <<FaultWhat(fault)>>]
    /\ slot_log' = Append(slot_log, <<"worker", "write">>)
    /\ UNCHANGED <<number, fault, main_pc, future_valid, worker_result,
                   result, caught, console, exit_code>>

----------------------------------------------------------------------------

main ==
    \/ MainStart
    \/ Launch
    \/ MainDoingOtherWork
    \/ MainSleep
    \/ MainWake
    \/ MainFinishedOtherWork
    \/ MainWaiting
    \/ MainGet
    \/ MainPrintResult
    \/ MainPrintDiagnostic
    \/ MainProgramFinished
    \/ MainReturn

calculate_square_async ==
    \/ WorkerStart
    \/ WorkerSleep
    \/ WorkerWake
    \/ WorkerCompute
    \/ WorkerFinished
    \/ WorkerReturn
    \/ WorkerThrow

Next == main \/ calculate_square_async

Spec == Init /\ [][Next]_vars

\* Both threads are scheduled by the operating system: a thread that can
\* take a step eventually takes one.
FairSpec == Spec /\ WF_vars(main) /\ WF_vars(calculate_square_async)

----------------------------------------------------------------------------
(* Views of the state used by the properties *)

\* calculate_square_async has returned or thrown.
WorkerCompleted == worker_pc \in {"returned", "thrown"}

\* main is past the call of future_result.get() at line 57.
PastRetrieval == main_pc \in {"m58", "m61", "m64", "m65", "exited"}

Printed(ctx, line) == \E i \in 1..Len(console) :
    console[i].ctx = ctx /\ console[i].line = line

\* Position of the first such line on the console, 0 if there is none.
Pos(ctx, line) ==
    IF Printed(ctx, line)
      THEN CHOOSE i \in 1..Len(console) :
             /\ console[i].ctx = ctx /\ console[i].line = line
             /\ \A j \in 1..(i - 1) : ~(console[j].ctx = ctx /\ console[j].line = line)
      ELSE 0

\* The lines of one context, in the order printed.
LinesOf(ctx) == SelectSeq(console, LAMBDA e : e.ctx = ctx)

IsPrefix(s, t) == Len(s) <= Len(t) /\ s = SubSeq(t, 1, Len(s))

\* The state of the handle future_result (spec section 4.3).
HandleState ==
    IF shared_state.status = "absent" THEN "NotCreated"
    ELSE IF ~future_valid THEN "Consumed"
    ELSE IF shared_state.status = "pending" THEN "Pending"
    ELSE IF shared_state.status = "value" THEN "CompletedSuccess"
    ELSE "CompletedFailure"

\* main is suspended: asleep in sleep_for (line 46), or at a call that
\* cannot return yet.
CallerSuspended ==
    \/ main_pc = "m46_sleeping"
    \/ (main_pc # "exited" /\ ~ENABLED main)

\* r is the mathematical square of n.  r is an int, so no r is the square
\* of an n whose square exceeds IntMax.
EqualsSquare(r, n) == ~Overflows(n) /\ r = n * n

----------------------------------------------------------------------------
(* Properties *)

\* C1: the retrieval never returns before the worker has completed: whenever
\* main is past future_result.get() the worker has returned or thrown, a
\* value held by main is the value the worker returned, and while the worker
\* has not completed main cannot leave line 57.
C1_RetrievalAfterCompletion ==
    /\ PastRetrieval => WorkerCompleted
    /\ result # <<>> => (worker_pc = "returned" /\ result = worker_result)
    /\ (main_pc = "m57" /\ ~WorkerCompleted) => ~ENABLED main

\* C1 witness: main reached get() before the worker printed its last line,
\* so the retrieval started on a pending handle, and has now obtained the
\* value the worker returned.
C1_Witness ==
    /\ main_pc = "m58"
    /\ worker_pc = "returned"
    /\ result = worker_result
    /\ Pos("main", MsgWaiting) < Pos("worker", MsgWorkerFinished)

\* C2: for every non-negative input n the value yielded by the retrieval is
\* n * n.
C2_RetrievalYieldsSquare ==
    (number >= 0 /\ result # <<>>) => EqualsSquare(result[1], number)

\* C3: the launch does not wait for the worker: from the launch up to the
\* retrieval main can always take its next step whatever the worker has
\* done, and the launch leaves the worker at its first statement.
C3_LaunchNonBlocking ==
    /\ main_pc \in {"m41", "m45", "m46", "m46_sleeping", "m47", "m55"} => ENABLED main
    /\ main_pc = "m45" => ENABLED MainDoingOtherWork

\* C3 witness: main has printed "Doing other work..." and the worker has not
\* even started its first statement.
C3_Witness ==
    /\ Printed("main", MsgDoingOtherWork)
    /\ worker_pc = "w18"

\* C4: an injected worker failure is not handled in the worker (no later
\* worker line, the exception is what the shared state holds), surfaces at
\* the retrieval in main, which holds its description and no value, prints
\* the diagnostic, and under fair scheduling main still prints
\* "Program finished." and returns.
C4_FailureSurfacesAtRetrieval ==
    /\ [](worker_pc = "thrown" =>
            /\ shared_state = [status |-> "exception", payload |-> <<FaultWhat(fault)>>]
            /\ ~Printed("worker", MsgWorkerFinished))
    /\ []((PastRetrieval /\ worker_pc = "thrown") =>
            /\ caught = <<FaultWhat(fault)>>
            /\ result = <<>>
            /\ ~Printed("main", MsgResult))
    /\ []((main_pc \in {"m64", "m65", "exited"} /\ worker_pc = "thrown") =>
            Printed("main", MsgException))
    /\ (fault # "none" ~>
            (main_pc = "exited" /\ worker_pc = "thrown"
               /\ Printed("main", MsgProgramFinished)))

\* C4 witness: the worker threw, main printed the diagnostic and then
\* "Program finished." and returned.
C4_Witness ==
    /\ worker_pc = "thrown"
    /\ main_pc = "exited"
    /\ Printed("main", MsgException)
    /\ Printed("main", MsgProgramFinished)

\* C5: with no fault injected, under fair scheduling of both contexts, main
\* eventually prints "Program finished." and returns 0.
C5_BaseScenarioTerminates ==
    (fault = "none") ~>
        (main_pc = "exited" /\ exit_code = <<0>> /\ Printed("main", MsgProgramFinished))

\* C5 witness: main went to get() while the worker was still running and the
\* program completed normally.
C5_Witness ==
    /\ fault = "none"
    /\ main_pc = "exited"
    /\ exit_code = <<0>>
    /\ Pos("main", MsgWaiting) < Pos("worker", MsgWorkerStarting)

\* C6: the handle moves only Pending -> Completed-Success | Completed-Failure
\* -> Consumed: it completes in the very step in which the worker returns
\* (success) or throws (failure), it is consumed only by the step of main
\* that leaves get(), from a completed state, it is Consumed once main is past
\* the retrieval, and the slot is retrieved at most once.
C6_HandleStateMachine ==
    /\ [][HandleState' # HandleState =>
            \/ /\ HandleState = "NotCreated"
               /\ HandleState' = "Pending"
               /\ main_pc = "m41"
            \/ /\ HandleState = "Pending"
               /\ HandleState' = "CompletedSuccess"
               /\ worker_pc # "returned" /\ worker_pc' = "returned"
            \/ /\ HandleState = "Pending"
               /\ HandleState' = "CompletedFailure"
               /\ worker_pc # "thrown" /\ worker_pc' = "thrown"
            \/ /\ HandleState \in {"CompletedSuccess", "CompletedFailure"}
               /\ HandleState' = "Consumed"
               /\ main_pc = "m57" /\ main_pc' \in {"m58", "m61"}]_vars
    /\ [](WorkerCompleted <=> HandleState \in {"CompletedSuccess", "CompletedFailure", "Consumed"})
    /\ [](PastRetrieval <=> HandleState = "Consumed")
    /\ [](Len(SelectSeq(slot_log, LAMBDA e : e[2] = "read")) <= 1)

\* C6 witness: a handle that completed with a failure has been consumed.
C6_Witness ==
    /\ HandleState = "Consumed"
    /\ shared_state.status = "exception"
    /\ main_pc = "m61"

\* The one write by the worker followed by the one read by main.
Rendezvous == << <<"worker", "write">>, <<"main", "read">> >>

\* C7: the result slot is written once, by the worker, then read once, by
\* main: the accesses so far are always a prefix of Rendezvous, the write is
\* there exactly when the worker has completed, the read exactly when main is
\* past the retrieval, and both are there when the program ends.
C7_SingleWriteSingleRead ==
    /\ IsPrefix(slot_log, Rendezvous)
    /\ (Len(slot_log) >= 1) <=> WorkerCompleted
    /\ (Len(slot_log) = 2) <=> PastRetrieval
    /\ main_pc = "exited" => slot_log = Rendezvous

\* C7 witness: the program has ended after a successful worker, with the
\* write and the read both done.
C7_Witness ==
    /\ main_pc = "exited"
    /\ worker_pc = "returned"
    /\ slot_log = Rendezvous

\* The order of the worker's positions.
WorkerRank(pc) ==
    CASE pc = "idle" -> 0
      [] pc = "w18" -> 1
      [] pc = "w22" -> 2
      [] pc = "w22_sleeping" -> 3
      [] pc = "w24" -> 4
      [] pc = "w25" -> 5
      [] pc = "w26" -> 6
      [] pc \in {"returned", "thrown"} -> 7
      [] OTHER -> 8

\* C8: once launched, under fair scheduling the worker eventually returns or
\* throws; no step of main changes the worker's position except the launch
\* that starts it, a completed worker stays completed, and the worker only
\* moves forward through its statements.
C8_NoCancellation ==
    /\ (worker_pc # "idle") ~> WorkerCompleted
    /\ [][main => (worker_pc' = worker_pc \/ (main_pc = "m41" /\ worker_pc = "idle" /\ worker_pc' = "w18"))]_vars
    /\ [][worker_pc' # worker_pc => (WorkerRank(worker_pc) < WorkerRank(worker_pc') /\ WorkerRank(worker_pc') <= 7)]_vars

\* C8 witness: the worker has completed while main has not yet asked for the
\* result.
C8_Witness ==
    /\ worker_pc = "returned"
    /\ main_pc = "m46_sleeping"

\* The order of main's lines; the diagnostic of line 61 takes the place of
\* the result line of line 58.
MainRank(line) ==
    CASE line = MsgStarting -> 1
      [] line = MsgDoingOtherWork -> 2
      [] line = MsgFinishedOtherWork -> 3
      [] line = MsgWaiting -> 4
      [] line \in {MsgResult, MsgException} -> 5
      [] line = MsgProgramFinished -> 6
      [] OTHER -> 0

LineRank(e) ==
    IF e.ctx = "main" THEN MainRank(e.line)
    ELSE IF e.line = MsgWorkerStarting THEN 1
    ELSE IF e.line = MsgWorkerFinished THEN 2
    ELSE 0

\* C9: within each context the lines appear in program order, each at most
\* once; main's result line comes after the worker's "finished" line; and a
\* run without fault ends with all six lines of main and both of the worker.
C9_NarrationOrder ==
    /\ \A i, j \in 1..Len(console) :
          (i < j /\ console[i].ctx = console[j].ctx) =>
             (0 < LineRank(console[i]) /\ LineRank(console[i]) < LineRank(console[j]))
    /\ Printed("main", MsgResult) =>
          (0 < Pos("worker", MsgWorkerFinished)
             /\ Pos("worker", MsgWorkerFinished) < Pos("main", MsgResult))
    /\ (main_pc = "exited" /\ fault = "none") =>
          /\ [i \in 1..6 |-> LinesOf("main")[i].line] =
                <<MsgStarting, MsgDoingOtherWork, MsgFinishedOtherWork,
                  MsgWaiting, MsgResult, MsgProgramFinished>>
          /\ Len(LinesOf("main")) = 6
          /\ [i \in 1..2 |-> LinesOf("worker")[i].line] = <<MsgWorkerStarting, MsgWorkerFinished>>
          /\ Len(LinesOf("worker")) = 2

\* C9 witness: a finished run in which the worker's first line came only
\* after main had announced that it waits.
C9_Witness ==
    /\ main_pc = "exited"
    /\ fault = "none"
    /\ Len(console) = 8
    /\ Pos("main", MsgWaiting) < Pos("worker", MsgWorkerStarting)

\* C10: main is never suspended anywhere but in the retrieval.
C10_SoleSuspensionPoint ==
    CallerSuspended => main_pc = "m57"

\* C10, with the sleep of line 46 counted: main is suspended only in sleep_for at line 46, which no
\* other context can prolong or end, and in the retrieval at line 57; in the
\* retrieval it is suspended exactly while the worker has not completed.
C10_SuspensionPoints ==
    /\ CallerSuspended => main_pc \in {"m46_sleeping", "m57"}
    /\ main_pc = "m46_sleeping" => ENABLED main
    /\ main_pc = "m57" => (CallerSuspended <=> ~WorkerCompleted)

\* C10 witness: main is blocked in get() while the worker sleeps.
C10_Witness ==
    /\ main_pc = "m57"
    /\ CallerSuspended
    /\ worker_pc = "w22_sleeping"

\* The place of a line in the output documented at lines 76-84 of the
\* source; the diagnostic of line 61 takes the place of the result line.
DocRank(e) ==
    IF e.ctx = "main"
      THEN CASE e.line = MsgStarting -> 1
             [] e.line = MsgDoingOtherWork -> 2
             [] e.line = MsgFinishedOtherWork -> 4
             [] e.line = MsgWaiting -> 5
             [] e.line \in {MsgResult, MsgException} -> 7
             [] e.line = MsgProgramFinished -> 8
             [] OTHER -> 0
      ELSE CASE e.line = MsgWorkerStarting -> 3
             [] e.line = MsgWorkerFinished -> 6
             [] OTHER -> 0

\* One of the two lines is the worker's and the other is one of the lines
\* main prints between the launch and the retrieval.
WorkerAgainstOtherWork(a, b) ==
    \E w \in {a, b}, m \in {a, b} :
        /\ w.ctx = "worker"
        /\ m.ctx = "main"
        /\ m.line \in {MsgDoingOtherWork, MsgFinishedOtherWork, MsgWaiting}

C12_StartInterleavesFreely ==
    /\ (worker_pc = "w18" /\ fault # "w18") => ENABLED WorkerStart
    /\ (worker_pc = "w18" /\ main_pc = "m45") => ENABLED MainDoingOtherWork
    /\ (worker_pc = "w18" /\ main_pc = "m47") => ENABLED MainFinishedOtherWork
    /\ (worker_pc = "w18" /\ main_pc = "m55") => ENABLED MainWaiting
    /\ (worker_pc = "w18" /\ main_pc \in {"m46", "m46_sleeping"}) => ENABLED main
    /\ (worker_pc = "w18" /\ main_pc \in {"m45", "m46", "m46_sleeping", "m47", "m55", "m57"}) =>
          ~Printed("worker", MsgWorkerStarting)
    /\ (Printed("worker", MsgWorkerStarting) /\ main_pc = "m45") =>
          ~Printed("main", MsgDoingOtherWork)

\* C12 witness: main has printed all three lines and waits in get() while the
\* worker has yet to print its first line; the run passed through every
\* state in which main was about to print one of the three lines with the
\* worker still at line 18.
C12_Witness ==
    /\ main_pc = "m57"
    /\ worker_pc = "w18"
    /\ fault = "none"
    /\ Printed("main", MsgDoingOtherWork)
    /\ Printed("main", MsgFinishedOtherWork)
    /\ Printed("main", MsgWaiting)
    /\ ENABLED WorkerStart

\* C13: main reports exactly one outcome: the result line only when the
\* handle completed with a value, the diagnostic only when it completed with
\* an exception, never both, one of them once main is past lines 58-61, and
\* after a worker failure main holds and prints no numeric result.
C13_ExactlyOneOutcome ==
    /\ ~(Printed("main", MsgResult) /\ Printed("main", MsgException))
    /\ Printed("main", MsgResult) =>
          (shared_state.status = "value" /\ worker_pc = "returned" /\ caught = <<>>)
    /\ Printed("main", MsgException) =>
          (shared_state.status = "exception" /\ worker_pc = "thrown" /\ result = <<>>)
    /\ main_pc \in {"m64", "m65", "exited"} =>
          (Printed("main", MsgResult) \/ Printed("main", MsgException))
    /\ worker_pc = "thrown" => (result = <<>> /\ ~Printed("main", MsgResult))
    /\ Len(SelectSeq(console, LAMBDA e : e.ctx = "main" /\ e.line \in {MsgResult, MsgException})) <= 1

\* C13 witness: the worker failed at its last print, after computing its
\* result, and main has reported the failure and nothing else.
C13_Witness ==
    /\ fault = "w25"
    /\ worker_result # <<>>
    /\ main_pc = "exited"
    /\ Printed("main", MsgException)
    /\ ~Printed("main", MsgResult)

\* C14: when main has printed "Program finished." the worker has terminated
\* and the handle is Consumed: the program never finishes with the worker
\* still running or its outcome unretrieved.
C14_FinishedImpliesJoined ==
    Printed("main", MsgProgramFinished) =>
        /\ WorkerCompleted
        /\ HandleState = "Consumed"
        /\ ~future_valid
        /\ slot_log = Rendezvous
        /\ main_pc \in {"m65", "exited"}

\* C14 witness: "Program finished." has been printed on the failure path.
C14_Witness ==
    /\ Printed("main", MsgProgramFinished)
    /\ worker_pc = "thrown"
    /\ HandleState = "Consumed"

\* The values printed with the first such line, <<>> if there is none.
ValOf(ctx, line) ==
    IF Printed(ctx, line) THEN console[Pos(ctx, line)].val ELSE <<>>

\* C15: the value main prints is the value the worker printed and the value
\* the worker returned: from the worker's return on, the slot holds the
\* worker's result, main's result equals it, and so do the printed values.
C15_ValueUnaltered ==
    /\ worker_pc = "returned" =>
          /\ shared_state.payload = worker_result
          /\ ValOf("worker", MsgWorkerFinished) = <<number>> \o worker_result
    /\ result # <<>> => result = shared_state.payload
    /\ Printed("main", MsgResult) =>
          /\ ValOf("main", MsgResult) = worker_result
          /\ <<number>> \o ValOf("main", MsgResult) = ValOf("worker", MsgWorkerFinished)

\* C15 witness: main has printed 25 for the input 5, as the worker did.
C15_Witness ==
    /\ number = 5
    /\ ValOf("main", MsgResult) = <<25>>
    /\ ValOf("worker", MsgWorkerFinished) = <<5, 25>>

\* C16: the exit code is 0 on both paths of the retrieval: main has an exit
\* code exactly when it has returned, that code is 0 whether the worker
\* returned or threw, it is set only after "Program finished.", and under
\* fair scheduling every run, with or without a caught failure, ends so.
C16_ExitCodeZero ==
    /\ []((exit_code # <<>>) <=> (main_pc = "exited"))
    /\ [](exit_code # <<>> =>
            /\ exit_code = <<0>>
            /\ Printed("main", MsgProgramFinished)
            /\ (caught # <<>> <=> worker_pc = "thrown"))
    /\ <>(main_pc = "exited" /\ exit_code = <<0>>)

\* C16 witness: main returned 0 after catching a worker failure.
C16_Witness ==
    /\ main_pc = "exited"
    /\ exit_code = <<0>>
    /\ caught # <<>>
    /\ worker_pc = "thrown"

====
